---- MODULE Spec2Model ----
(***************************************************************************)
(* Model of src/src/vdna/vdnas/vdna_gauss.py: the Gaussian VDNA            *)
(* (per-neuron mean/variance), its fit, its npz save/load and its merge    *)
(* (__add__).  Tensors are sequences of exact rationals <<p, q>>, so the   *)
(* merge formulas are checked in exact arithmetic; the float32 cast of the *)
(* codec is a real rounding to a 24-bit significand.                       *)
(***************************************************************************)
EXTENDS Integers, Sequences, FiniteSets

(***************************************************************************)
(* Bounds of the model.                                                    *)
(***************************************************************************)
\* largest num_images a merge result may have in the model
MaxImages == 6
\* operands of a modelled merge hold rationals with denominator <= MaxDen
\* (the values a float32 rounding produced are excluded: their squares do
\* not fit TLC's integers)
MaxDen == 16

(***************************************************************************)
(* Exact rational arithmetic: a number is <<p, q>> with q > 0, gcd(p,q)=1. *)
(***************************************************************************)
Abs(x) == IF x < 0 THEN -x ELSE x
Sign(x) == IF x < 0 THEN -1 ELSE IF x > 0 THEN 1 ELSE 0

RECURSIVE GCD(_, _)
GCD(a, b) == IF b = 0 THEN a ELSE GCD(b, a % b)

\* the IEEE values a division by zero produces: q = 0
NaN == <<0, 0>>
IsFinite(x) == x[2] # 0
IsNaN(x) == x = NaN

Rat(p, q) ==
    IF q = 0 THEN <<Sign(p), 0>>
    ELSE LET g == GCD(Abs(p), Abs(q))
         IN  IF q < 0 THEN <<(-p) \div g, (-q) \div g>> ELSE <<p \div g, q \div g>>

RInt(n) == <<n, 1>>
RZero == RInt(0)

RAdd(x, y) ==
    IF IsNaN(x) \/ IsNaN(y) THEN NaN
    ELSE IF ~IsFinite(x) /\ ~IsFinite(y) THEN (IF x = y THEN x ELSE NaN)
    ELSE IF ~IsFinite(x) THEN x
    ELSE IF ~IsFinite(y) THEN y
    ELSE LET g == GCD(x[2], y[2])
         IN  Rat(x[1] * (y[2] \div g) + y[1] * (x[2] \div g), (x[2] \div g) * y[2])

RNeg(x) == <<-x[1], x[2]>>
RSub(x, y) == RAdd(x, RNeg(y))

RMul(x, y) ==
    IF IsNaN(x) \/ IsNaN(y) THEN NaN
    ELSE IF ~IsFinite(x) \/ ~IsFinite(y) THEN <<Sign(x[1]) * Sign(y[1]), 0>>
    ELSE IF x[1] = 0 \/ y[1] = 0 THEN RZero
    ELSE LET g1 == GCD(Abs(x[1]), y[2])
             g2 == GCD(Abs(y[1]), x[2])
         IN  Rat((x[1] \div g1) * (y[1] \div g2), (x[2] \div g2) * (y[2] \div g1))

\* x / 0 is +-inf or nan, as for torch float tensors
RDiv(x, y) == RMul(x, Rat(y[2], y[1]))
RGeq0(x) == IsFinite(x) /\ x[1] >= 0

RECURSIVE Pow2(_)
Pow2(k) == IF k = 0 THEN 1 ELSE 2 * Pow2(k - 1)

\* round p / q (p, q > 0) to the nearest integer, ties to even
RoundHalfEven(p, q) ==
    LET f == p \div q
        r == p % q
    IN  IF 2 * r < q THEN f
        ELSE IF 2 * r > q THEN f + 1
        ELSE IF f % 2 = 0 THEN f ELSE f + 1

RECURSIVE IsPow2(_)
IsPow2(q) == q = 1 \/ (q > 1 /\ q % 2 = 0 /\ IsPow2(q \div 2))

\* the exponent k with 2^23 <= (p / q) * 2^k, for 0 < p / q < 2^24
RECURSIVE ScaleExp(_, _, _)
ScaleExp(p, q, k) ==
    IF (p * Pow2(k)) \div q >= Pow2(23) THEN k ELSE ScaleExp(p, q, k + 1)

\* astype(np.float32): round to nearest, ties to even, 24-bit significand.
\* A dyadic value with a significand below 2^24 is a float32 already.
\* Magnitudes of 2^24 and more, and subnormals, do not occur in the model.
AsFloat32(x) ==
    IF ~IsFinite(x) \/ x[1] = 0 THEN x
    ELSE IF IsPow2(x[2]) /\ Abs(x[1]) < Pow2(24) THEN x
    ELSE IF Abs(x[1]) \div x[2] >= Pow2(24) THEN x
    ELSE LET a == Abs(x[1])
             k == ScaleExp(a, x[2], 0)
         IN  Rat(Sign(x[1]) * RoundHalfEven(a * Pow2(k), x[2]), Pow2(k))

(***************************************************************************)
(* Tensors: 1-D tensors are sequences of rationals, a feature batch is a   *)
(* sequence of rows.  Elementwise operators broadcast a length-1 operand   *)
(* as torch does.                                                          *)
(***************************************************************************)
\* a sequence given by a rule, as an explicit tuple
Tuple(sq) == sq \o << >>

At(t, i) == IF Len(t) = 1 THEN t[1] ELSE t[i]
BLen(t, u) == IF Len(t) >= Len(u) THEN Len(t) ELSE Len(u)
\* torch raises RuntimeError when neither length is 1 and they differ
Broadcastable(t, u) == Len(t) = Len(u) \/ Len(t) = 1 \/ Len(u) = 1

TAdd(t, u) == Tuple([i \in 1..BLen(t, u) |-> RAdd(At(t, i), At(u, i))])
TSub(t, u) == Tuple([i \in 1..BLen(t, u) |-> RSub(At(t, i), At(u, i))])
TSquare(t) == Tuple([i \in 1..Len(t) |-> RMul(t[i], t[i])])
TScale(t, n) == Tuple([i \in 1..Len(t) |-> RMul(t[i], RInt(n))])
TDivInt(t, n) == Tuple([i \in 1..Len(t) |-> RDiv(t[i], RInt(n))])
TZerosLike(t) == Tuple([i \in 1..Len(t) |-> RZero])

RECURSIVE RSum(_)
RSum(s) == IF s = <<>> THEN RZero ELSE RAdd(s[1], RSum(Tail(s)))

\* column j of a batch
Column(features, j) == Tuple([i \in 1..Len(features) |-> features[i][j]])

\* torch.mean(features, dim=0)
TorchMean(features) ==
    Tuple([j \in 1..Len(features[1]) |->
              RDiv(RSum(Column(features, j)), RInt(Len(features)))])

\* the population variance (correction=0)
TorchVarBiased(features) ==
    LET n == Len(features)
        m == TorchMean(features)
    IN  Tuple([j \in 1..Len(features[1]) |->
                  RDiv(RSum(TSquare(Tuple([i \in 1..n |-> RSub(features[i][j], m[j])]))),
                       RInt(n))])

\* torch.var(features, dim=0, correction=1)
TorchVar(features) ==
    LET n == Len(features)
        m == TorchMean(features)
    IN  Tuple([j \in 1..Len(features[1]) |->
                  RDiv(RSum(TSquare(Tuple([i \in 1..n |-> RSub(features[i][j], m[j])]))),
                       RInt(n - 1))])

(***************************************************************************)
(* _get_gaussian_params (lines 11-19).  view(shape[0], -1) on a batch of   *)
(* zero rows raises (the -1 dimension is ambiguous), before anything is    *)
(* computed or printed.                                                    *)
(***************************************************************************)
GetGaussianParamsBuggy(features) ==
    IF Len(features) > 1
    THEN [err |-> "none", mu |-> TorchMean(features),
          var |-> TorchVar(features), warned |-> FALSE]
    ELSE IF Len(features) = 1
    THEN [err |-> "none", mu |-> TorchMean(features),
          var |-> TZerosLike(TorchMean(features)), warned |-> TRUE]
    ELSE [err |-> "none", mu |-> <<>>, var |-> <<>>, warned |-> TRUE]

GetGaussianParams(features) ==
    IF Len(features) = 0
    THEN [err |-> "ShapeError", mu |-> <<>>, var |-> <<>>, warned |-> FALSE]
    ELSE IF Len(features) > 1
    THEN [err |-> "none", mu |-> TorchMean(features),
          var |-> TorchVar(features), warned |-> FALSE]
    ELSE [err |-> "none", mu |-> TorchMean(features),
          var |-> TZerosLike(TorchMean(features)), warned |-> TRUE]

(***************************************************************************)
(* Python dicts keep insertion order: a dict is a sequence of entries      *)
(* [k, v]; assigning an existing key keeps its place.                      *)
(***************************************************************************)
Keys(d) == Tuple([i \in 1..Len(d) |-> d[i].k])
KeySet(d) == {d[i].k : i \in 1..Len(d)}
HasKey(d, key) == key \in KeySet(d)
Get(d, key) == d[CHOOSE i \in 1..Len(d) : d[i].k = key].v
Put(d, key, val) ==
    IF HasKey(d, key)
    THEN Tuple([i \in 1..Len(d) |->
                   IF d[i].k = key THEN [k |-> key, v |-> val] ELSE d[i]])
    ELSE Append(d, [k |-> key, v |-> val])

(***************************************************************************)
(* A layer name is a string, modelled as the sequence of its pieces so     *)
(* that "mu-" + layer is a concatenation that can collide with a name.     *)
(***************************************************************************)
LayerL == <<"L">>
LayerK == <<"K">>
MuKey(layer) == <<"mu-">> \o layer
VarKey(layer) == <<"var-">> \o layer
LayerMuL == MuKey(LayerL)

\* self.data[layer]: the inner dict {"mu": ..., "var": ...}; has = its keys
NoStats == [has |-> {}, mu |-> <<>>, var |-> <<>>]
Stats(m, v) == [has |-> {"mu", "var"}, mu |-> m, var |-> v]
Complete(d) == \A i \in 1..Len(d) : d[i].v.has = {"mu", "var"}

(***************************************************************************)
(* fit_distribution (lines 33-36): features_dict is a dict layer -> batch. *)
(* self.data is rebound to a new dict, then filled layer by layer; a       *)
(* raising layer leaves the layers before it in place.                     *)
(***************************************************************************)
RECURSIVE FitLoop(_, _, _, _)
FitLoop(features_dict, i, data, warned) ==
    IF i > Len(features_dict) THEN [err |-> "none", data |-> data, warned |-> warned]
    ELSE LET g == GetGaussianParams(features_dict[i].v)
         IN  IF g.err # "none"
             THEN [err |-> g.err, data |-> data, warned |-> warned]
             ELSE FitLoop(features_dict, i + 1,
                          Put(data, features_dict[i].k, Stats(g.mu, g.var)),
                          IF g.warned THEN warned \cup {features_dict[i].k} ELSE warned)

FitDistribution(features_dict) == FitLoop(features_dict, 1, <<>>, {})

(***************************************************************************)
(* _save_dist_data (lines 41-48).  An npz entry is an array or, for the    *)
(* data[layer] = {} of line 45, a pickled object.  A layer without "mu" or *)
(* "var" raises KeyError before anything is written.                       *)
(***************************************************************************)
NpzObject == [object |-> TRUE, array |-> <<>>]
NpzArray(t) == [object |-> FALSE, array |-> t]
ToFloat32(t) == Tuple([i \in 1..Len(t) |-> AsFloat32(t[i])])

RECURSIVE SaveLoop(_, _, _)
SaveLoop(data, i, out) ==
    IF i > Len(data) THEN [err |-> "none", npz |-> out]
    ELSE LET layer == data[i].k
             st == data[i].v
             o1 == Put(out, layer, NpzObject)
         IN  IF "mu" \notin st.has THEN [err |-> "KeyError", npz |-> <<>>]
             ELSE LET o2 == Put(o1, MuKey(layer), NpzArray(ToFloat32(st.mu)))
                  IN  IF "var" \notin st.has THEN [err |-> "KeyError", npz |-> <<>>]
                      ELSE SaveLoop(data, i + 1,
                                    Put(o2, VarKey(layer), NpzArray(ToFloat32(st.var))))

SaveDistData(data) == SaveLoop(data, 1, <<>>)

(***************************************************************************)
(* _load_dist_data (lines 50-57).  np.load keeps allow_pickle=False, so    *)
(* reading an object entry raises ValueError; a missing key raises         *)
(* KeyError.  self.data[layer] = {} is set before the reads.               *)
(***************************************************************************)
NpzRead(npz, key) ==
    IF ~HasKey(npz, key) THEN [err |-> "KeyError", array |-> <<>>]
    ELSE IF Get(npz, key).object THEN [err |-> "ValueError", array |-> <<>>]
    ELSE [err |-> "none", array |-> Get(npz, key).array]

RECURSIVE LoadLoop(_, _, _, _)
LoadLoop(npz, neurons_list, i, data) ==
    IF i > Len(neurons_list) THEN [err |-> "none", data |-> data]
    ELSE LET layer == neurons_list[i]
             d1 == Put(data, layer, NoStats)
             m == NpzRead(npz, MuKey(layer))
         IN  IF m.err # "none" THEN [err |-> m.err, data |-> d1]
             ELSE LET d2 == Put(d1, layer, [has |-> {"mu"}, mu |-> m.array, var |-> <<>>])
                      v == NpzRead(npz, VarKey(layer))
                  IN  IF v.err # "none" THEN [err |-> v.err, data |-> d2]
                      ELSE LoadLoop(npz, neurons_list, i + 1,
                                    Put(d2, layer, Stats(m.array, v.array)))

LoadDistData(npz, neurons_list) == LoadLoop(npz, neurons_list, 1, <<>>)

(***************************************************************************)
(* The query interface (lines 59-76).                                      *)
(***************************************************************************)
GetNeuronDist(data, layer_name, neuron_idx) ==
    IF ~HasKey(data, layer_name) \/ Get(data, layer_name).has # {"mu", "var"}
    THEN [err |-> "KeyError", mu |-> NaN, var |-> NaN]
    ELSE IF neuron_idx \notin 1..Len(Get(data, layer_name).mu)
    THEN [err |-> "IndexError", mu |-> NaN, var |-> NaN]
    ELSE [err |-> "none", mu |-> Get(data, layer_name).mu[neuron_idx],
          var |-> Get(data, layer_name).var[neuron_idx]]

GetAllNeuronsInLayerDist(data, layer_name) ==
    IF ~HasKey(data, layer_name) \/ Get(data, layer_name).has # {"mu", "var"}
    THEN [err |-> "KeyError", mu |-> <<>>, var |-> <<>>]
    ELSE [err |-> "none", mu |-> Get(data, layer_name).mu,
          var |-> Get(data, layer_name).var]

RECURSIVE CatMu(_, _)
CatMu(data, i) == IF i > Len(data) THEN <<>> ELSE data[i].v.mu \o CatMu(data, i + 1)
RECURSIVE CatVar(_, _)
CatVar(data, i) == IF i > Len(data) THEN <<>> ELSE data[i].v.var \o CatVar(data, i + 1)
RECURSIVE CatVarReversed(_, _)
CatVarReversed(data, i) ==
    IF i > Len(data) THEN <<>> ELSE CatVarReversed(data, i + 1) \o data[i].v.var

\* a variant that gathers the variances in the opposite layer order
GetAllNeuronsDistsVarReversed(data) ==
    IF ~Complete(data) THEN [err |-> "KeyError", mu |-> <<>>, var |-> <<>>]
    ELSE IF data = <<>> THEN [err |-> "RuntimeError", mu |-> <<>>, var |-> <<>>]
    ELSE [err |-> "none", mu |-> CatMu(data, 1), var |-> CatVarReversed(data, 1)]

\* torch.cat of an empty list raises RuntimeError
GetAllNeuronsDists(data) ==
    IF ~Complete(data) THEN [err |-> "KeyError", mu |-> <<>>, var |-> <<>>]
    ELSE IF data = <<>> THEN [err |-> "RuntimeError", mu |-> <<>>, var |-> <<>>]
    ELSE [err |-> "none", mu |-> CatMu(data, 1), var |-> CatVar(data, 1)]

(***************************************************************************)
(* The heap: every VDNAGauss object holds a reference to its data dict, so *)
(* that two objects sharing one dict is a state the model can express.     *)
(***************************************************************************)
Objs == {"a", "b", "c"}
Refs == Objs

\* _common_before_add of the base class: the schema check and the new
\* object's sample count (vdna_base.py is not part of the sources)
NeuronCount(st) == Len(st.mu)
SameSchema(sd, od) ==
    /\ KeySet(sd) = KeySet(od)
    /\ \A layer \in KeySet(sd) : NeuronCount(Get(sd, layer)) = NeuronCount(Get(od, layer))

CommonBeforeAdd(sd, od, n_self, n_other) ==
    IF ~SameSchema(sd, od) THEN [err |-> "SchemaMismatchError", num_images |-> 0]
    ELSE [err |-> "none", num_images |-> n_self + n_other]

(***************************************************************************)
(* __add__ (lines 78-94), on the heap h.  self and other are the operand   *)
(* objects [data |-> ref, num_images |-> n], new is the reference of the   *)
(* dict VDNAGauss() creates for new_vdna.                                  *)
(***************************************************************************)
AllBroadcastable(ts) == \A i, j \in 1..Len(ts) : Broadcastable(ts[i], ts[j])

\* a combined mean that weights both operands by self.num_images
CombinedMuSelfWeight(smu, omu, na, nb) ==
    TDivInt(TAdd(TScale(smu, na), TScale(omu, na)), na + nb)

\* lines 84-86: the combined mean
CombinedMu(smu, omu, na, nb) ==
    TDivInt(TAdd(TScale(smu, na), TScale(omu, nb)), na + nb)

\* a combined variance with the biased divisor n_a + n_b
CombinedVarBiased(svar, smu, ovar, omu, nmu, na, nb) ==
    TDivInt(TAdd(TAdd(TAdd(TScale(svar, na - 1),
                           TScale(TSquare(TSub(smu, nmu)), na)),
                      TScale(ovar, nb - 1)),
                 TScale(TSquare(TSub(omu, nmu)), nb)),
            na + nb)

\* lines 88-93: the combined variance
CombinedVar(svar, smu, ovar, omu, nmu, na, nb) ==
    TDivInt(TAdd(TAdd(TAdd(TScale(svar, na - 1),
                           TScale(TSquare(TSub(smu, nmu)), na)),
                      TScale(ovar, nb - 1)),
                 TScale(TSquare(TSub(omu, nmu)), nb)),
            na + nb - 1)

RECURSIVE AddLoop(_, _, _, _, _, _)
AddLoop(h, layers, i, self, other, new) ==
    IF i > Len(layers) THEN [err |-> "none", heap |-> h]
    ELSE
    LET layer == layers[i]
        na == self.num_images
        nb == other.num_images
        \* line 83: new_vdna.data[layer] = {}
        h1 == [h EXCEPT ![new] = Put(h[new], layer, NoStats)]
        sd == h1[self.data]
        od == h1[other.data]
    IN  IF ~HasKey(sd, layer) \/ "mu" \notin Get(sd, layer).has
           \/ ~HasKey(od, layer) \/ "mu" \notin Get(od, layer).has
        THEN [err |-> "KeyError", heap |-> h1]
        ELSE
        LET smu == Get(sd, layer).mu
            omu == Get(od, layer).mu
        IN  IF ~Broadcastable(smu, omu) THEN [err |-> "RuntimeError", heap |-> h1]
            ELSE
            LET \* lines 84-86
                mu == CombinedMu(smu, omu, na, nb)
                h2 == [h1 EXCEPT ![new] =
                          Put(h1[new], layer, [has |-> {"mu"}, mu |-> mu, var |-> <<>>])]
                sd2 == h2[self.data]
                od2 == h2[other.data]
            IN  IF "var" \notin Get(sd2, layer).has \/ "var" \notin Get(od2, layer).has
                THEN [err |-> "KeyError", heap |-> h2]
                ELSE
                LET svar == Get(sd2, layer).var
                    ovar == Get(od2, layer).var
                    smu2 == Get(sd2, layer).mu
                    omu2 == Get(od2, layer).mu
                    nmu == Get(h2[new], layer).mu
                IN  IF ~AllBroadcastable(<<svar, smu2, nmu, ovar, omu2>>)
                    THEN [err |-> "RuntimeError", heap |-> h2]
                    ELSE
                    LET \* lines 88-93
                        var == CombinedVar(svar, smu2, ovar, omu2, nmu, na, nb)
                        h3 == [h2 EXCEPT ![new] =
                                  Put(h2[new], layer, Stats(Get(h2[new], layer).mu, var))]
                    IN  AddLoop(h3, layers, i + 1, self, other, new)

\* a merge that skips the base class's check
AddUnchecked(h, self, other, new) ==
    LET h0 == [h EXCEPT ![new] = <<>>]
        r == AddLoop(h0, Keys(h0[self.data]), 1, self, other, new)
    IN  [err |-> r.err, heap |-> r.heap, data |-> new,
         num_images |-> self.num_images + other.num_images]

\* a merge that fills self's own dict instead of a new one
AddIntoSelf(h, self, other, new) ==
    LET c == CommonBeforeAdd(h[self.data], h[other.data],
                             self.num_images, other.num_images)
    IN  IF c.err # "none"
        THEN [err |-> c.err, heap |-> h, data |-> new, num_images |-> 0]
        ELSE LET r == AddLoop(h, Keys(h[self.data]), 1, self, other, self.data)
             IN  [err |-> r.err, heap |-> r.heap, data |-> self.data,
                  num_images |-> c.num_images]

Add(h, self, other, new) ==
    LET h0 == [h EXCEPT ![new] = <<>>]
        c == CommonBeforeAdd(h0[self.data], h0[other.data],
                             self.num_images, other.num_images)
    IN  IF c.err # "none"
        THEN [err |-> c.err, heap |-> h0, data |-> new, num_images |-> 0]
        ELSE LET r == AddLoop(h0, Keys(h0[self.data]), 1, self, other, new)
             IN  [err |-> r.err, heap |-> r.heap, data |-> new,
                  num_images |-> c.num_images]

(***************************************************************************)
(* Inputs.  The feature extractor is an external collaborator: a fixed     *)
(* function from an image (a number) to each layer's neurons.  A dataset   *)
(* is the list of extracted layers with their neuron counts, and the       *)
(* images of the batch.                                                    *)
(***************************************************************************)
Layer(name, width) == [k |-> name, v |-> width]
Dataset(cfg, images) == [cfg |-> cfg, images |-> images]
Datasets ==
    { Dataset(<< >>, <<2>>),
      Dataset(<< Layer(LayerL, 1), Layer(LayerK, 2) >>, <<0, 1>>),
      Dataset(<< Layer(LayerK, 2), Layer(LayerL, 1) >>, <<1, 3>>),
      Dataset(<< Layer(LayerL, 1) >>, <<2>>),
      Dataset(<< Layer(LayerL, 2) >>, <<0, 0, 1>>),
      Dataset(<< Layer(LayerL, 1), Layer(LayerMuL, 1) >>, <<0, 1>>),
      Dataset(<< Layer(LayerMuL, 1), Layer(LayerL, 1) >>, <<1, 3>>),
      Dataset(<< Layer(LayerL, 1), Layer(LayerK, 2) >>, << >>) }

Bias(layer) == IF layer = LayerL THEN 0 ELSE IF layer = LayerK THEN 1 ELSE 2
Neuron(layer, j, image) == RInt(image * j + Bias(layer))
LayerBatch(layer, width, images) ==
    Tuple([i \in 1..Len(images) |->
              Tuple([j \in 1..width |-> Neuron(layer, j, images[i])])])
Features(cfg, images) ==
    Tuple([i \in 1..Len(cfg) |->
              [k |-> cfg[i].k, v |-> LayerBatch(cfg[i].k, cfg[i].v, images)]])
LayerNames(cfg) == Tuple([i \in 1..Len(cfg) |-> cfg[i].k])

\* fit_distribution on each dataset, computed once
FitResult == [d \in Datasets |-> FitDistribution(Features(d.cfg, d.images))]

(***************************************************************************)
(* State.                                                                  *)
(***************************************************************************)
VARIABLES
    objs,   \* object -> [data |-> reference of self.data, num_images |-> n]
    heap,   \* reference -> dict layer -> {"mu", "var"}
    file,   \* the npz archive and its companion metadata
    hist    \* object -> the operation that populated it (history, for the properties)

vars == <<objs, heap, file, hist>>

NoConfig == << >>
FreshHist == [op |-> "new", err |-> "none", warned |-> {}, pooled |-> FALSE,
              images |-> << >>, cfg |-> NoConfig, minfit |-> 0, order |-> << >>,
              src |-> << >>, na |-> 0, nb |-> 0, schema |-> TRUE]
Fresh(o) == hist[o].op = "new"
\* fit_distribution and _load_dist_data rebind self.data of any object; the
\* model populates new objects and repopulates the results of merges
Refillable(o) == hist[o].op \in {"new", "merge"}

\* VDNAGauss.__init__ (lines 23-27): self.data = {}; no sample yet
Init ==
    /\ objs = [o \in Objs |-> [data |-> o, num_images |-> 0]]
    /\ heap = [r \in Refs |-> << >>]
    /\ file = [exists |-> FALSE, npz |-> << >>, layers |-> << >>, num_images |-> 0,
               saved |-> << >>]
    /\ hist = [o \in Objs |-> FreshHist]

\* a reference no object other than o holds (o's own name when it is free)
FreshRef(o) ==
    IF \A p \in Objs \ {o} : objs[p].data # o THEN o
    ELSE CHOOSE r \in Refs : \A p \in Objs \ {o} : objs[p].data # r

\* dicts no object refers to are gone
Collect(h, os) == [r \in Refs |-> IF \E o \in Objs : os[o].data = r THEN h[r] ELSE << >>]

Data(o) == heap[objs[o].data]

RECURSIVE Dedup(_)
Dedup(sq) ==
    IF sq = << >> THEN << >>
    ELSE LET rest == Dedup(SubSeq(sq, 1, Len(sq) - 1))
             x == sq[Len(sq)]
         IN  IF \E i \in 1..Len(rest) : rest[i] = x THEN rest ELSE Append(rest, x)

(***************************************************************************)
(* Fit: the caller hands the extracted features to fit_distribution; the   *)
(* sample count of a completed fit is the batch size.                      *)
(***************************************************************************)
\* the sample count the base class records for a fit (vdna_base.py is not
\* part of the sources): the number of samples of the batch
SampleCountOfFit(images) == Len(images)

Fit(o, d) ==
    /\ Refillable(o)
    /\ \E ref \in {FreshRef(o)}, res \in {FitResult[d]} :
           /\ objs' = [objs EXCEPT ![o] =
                         [data |-> ref,
                          num_images |-> IF res.err = "none" THEN SampleCountOfFit(d.images)
                                         ELSE @.num_images]]
           /\ heap' = Collect([heap EXCEPT ![ref] = res.data], objs')
           /\ hist' = [hist EXCEPT ![o] =
                         [FreshHist EXCEPT !.op = "fit", !.err = res.err,
                             !.warned = res.warned, !.pooled = res.err = "none",
                             !.images = d.images, !.cfg = d.cfg,
                             !.minfit = Len(d.images),
                             !.order = SubSeq(LayerNames(d.cfg), 1, Len(res.data))]]
    /\ UNCHANGED file

(***************************************************************************)
(* Save: _save_dist_data writes the archive; the companion metadata holds  *)
(* the layer names and the sample count.                                   *)
(***************************************************************************)
Save(o) ==
    /\ \E res \in {SaveDistData(Data(o))} :
           file' = IF res.err = "none"
                   THEN [exists |-> TRUE, npz |-> res.npz, layers |-> Keys(Data(o)),
                         num_images |-> objs[o].num_images, saved |-> Data(o)]
                   ELSE file
    /\ UNCHANGED <<objs, heap, hist>>

(***************************************************************************)
(* Load: neurons_list comes from the metadata, then _load_dist_data.       *)
(***************************************************************************)
Load(o) ==
    /\ Refillable(o)
    /\ file.exists
    /\ \E ref \in {FreshRef(o)}, res \in {LoadDistData(file.npz, file.layers)} :
           /\ objs' = [objs EXCEPT ![o] =
                         [data |-> ref,
                          num_images |-> IF res.err = "none" THEN file.num_images
                                         ELSE @.num_images]]
           /\ heap' = Collect([heap EXCEPT ![ref] = res.data], objs')
           /\ hist' = [hist EXCEPT ![o] =
                         [FreshHist EXCEPT !.op = "load", !.err = res.err,
                             !.order = SubSeq(Dedup(file.layers), 1, Len(res.data)),
                             !.src = file.saved]]
    /\ UNCHANGED file

(***************************************************************************)
(* Merge: r = a + b.  A raising __add__ binds nothing.                     *)
(***************************************************************************)
SmallNumbers(data) ==
    \A i \in 1..Len(data) :
        /\ \A j \in 1..Len(data[i].v.mu) : data[i].v.mu[j][2] <= MaxDen
        /\ \A j \in 1..Len(data[i].v.var) : data[i].v.var[j][2] <= MaxDen

Min(x, y) == IF x <= y THEN x ELSE y

Merge(a, b, r) ==
    /\ r \notin {a, b}
    /\ Fresh(r)
    /\ objs[a].num_images + objs[b].num_images <= MaxImages
    /\ SmallNumbers(Data(a)) /\ SmallNumbers(Data(b))
    /\ \E res \in {Add(heap, objs[a], objs[b], FreshRef(r))} :
           /\ objs' = IF res.err = "none"
                      THEN [objs EXCEPT ![r] = [data |-> res.data,
                                                num_images |-> res.num_images]]
                      ELSE objs
           \* the object under construction is dropped when __add__ raises
           /\ heap' = IF res.err = "none"
                      THEN Collect(res.heap, objs')
                      ELSE [res.heap EXCEPT ![FreshRef(r)] = heap[FreshRef(r)]]
           /\ hist' = IF res.err = "none"
                      THEN [hist EXCEPT ![r] =
                              [FreshHist EXCEPT !.op = "merge",
                                  !.pooled = hist[a].pooled /\ hist[b].pooled,
                                  !.images = hist[a].images \o hist[b].images,
                                  !.cfg = hist[a].cfg,
                                  !.minfit = Min(hist[a].minfit, hist[b].minfit),
                                  !.order = hist[a].order,
                                  !.na = objs[a].num_images, !.nb = objs[b].num_images,
                                  !.schema = SameSchema(Data(a), Data(b))]]
                      ELSE hist
    /\ UNCHANGED file

Next ==
    \/ \E o \in Objs, d \in Datasets : Fit(o, d)
    \/ \E o \in Objs : Save(o)
    \/ \E o \in Objs : Load(o)
    \/ \E a, b, r \in Objs : Merge(a, b, r)

Spec == Init /\ [][Next]_vars

(***************************************************************************)
(* Helpers of the properties.                                              *)
(***************************************************************************)
Populated(o) == ~Fresh(o)
View(o) == [data |-> Data(o), num_images |-> objs[o].num_images]

\* merge as a function of two Distribution values, on a scratch heap
PureMerge(x, y) ==
    LET h == [r \in Refs |-> IF r = "a" THEN x.data ELSE IF r = "b" THEN y.data ELSE << >>]
        res == Add(h, [data |-> "a", num_images |-> x.num_images],
                      [data |-> "b", num_images |-> y.num_images], "c")
    IN  [err |-> res.err, data |-> res.heap["c"], num_images |-> res.num_images]

SameStats(d1, d2) ==
    /\ KeySet(d1) = KeySet(d2)
    /\ \A layer \in KeySet(d1) : Get(d1, layer) = Get(d2, layer)

Agree(m1, m2) ==
    /\ m1.err = "none" /\ m2.err = "none"
    /\ m1.num_images = m2.num_images
    /\ SameStats(m1.data, m2.data)

RECURSIVE IntSum(_)
IntSum(sq) == IF sq = << >> THEN 0 ELSE sq[1] + IntSum(Tail(sq))

\* the textbook unbiased sample variance of integers xs: (n Sxx - Sx^2) / (n (n-1))
SampleVariance(xs) ==
    LET n == Len(xs)
        sx == IntSum(xs)
        sxx == IntSum(Tuple([i \in 1..n |-> xs[i] * xs[i]]))
    IN  Rat(n * sxx - sx * sx, n * (n - 1))

NeuronValues(layer, j, images) ==
    Tuple([i \in 1..Len(images) |-> Neuron(layer, j, images[i])[1]])

RECURSIVE CatBy(_, _, _, _)
CatBy(order, i, data, field) ==
    IF i > Len(order) THEN << >>
    ELSE (IF field = "mu" THEN Get(data, order[i]).mu ELSE Get(data, order[i]).var)
         \o CatBy(order, i + 1, data, field)

RECURSIVE TotalNeurons(_, _)
TotalNeurons(data, i) ==
    IF i > Len(data) THEN 0 ELSE NeuronCount(data[i].v) + TotalNeurons(data, i + 1)

(***************************************************************************)
(* C1.  Merge correctness: the merge of two Distributions fitted on sample *)
(* sets A and B (at least 2 samples each, same layers and neuron counts)   *)
(* has, for every layer and neuron, the mu and var that fit_distribution   *)
(* gives on the concatenation of A and B (exact arithmetic).               *)
(***************************************************************************)
C1_MergeEqualsPooledFit ==
    \A r \in Objs :
        (hist[r].op = "merge" /\ hist[r].pooled /\ hist[r].minfit >= 2)
        => SameStats(Data(r),
                     FitDistribution(Features(hist[r].cfg, hist[r].images)).data)

\* a merge of two fits of two samples each, with different means and a
\* variance that is not zero
C1_Witness ==
    \E r \in Objs :
        /\ hist[r].op = "merge" /\ hist[r].pooled /\ hist[r].minfit >= 2
        /\ Len(hist[r].images) = 4
        /\ hist[r].images[1] + hist[r].images[2] # hist[r].images[3] + hist[r].images[4]
        /\ Len(Data(r)) = 2
        /\ \A i \in 1..Len(Data(r)) :
              \A j \in 1..Len(Data(r)[i].v.var) : Data(r)[i].v.var[j][1] > 0

(***************************************************************************)
(* C2.  Merge is associative and commutative: for three Distributions a,   *)
(* b, c over identical schemas, merge(merge(a,b),c), merge(a,merge(b,c))   *)
(* and merge(b,merge(a,c)) all succeed and agree on sample_count and on    *)
(* every mu and var entry of every layer (exact arithmetic).               *)
(***************************************************************************)
Mergeable(o) == Populated(o) /\ Complete(Data(o)) /\ SmallNumbers(Data(o))
                /\ Data(o) # << >> /\ objs[o].num_images >= 1

C2_MergeAssocComm ==
    (/\ \A o \in Objs : Mergeable(o)
     /\ SameSchema(Data("a"), Data("b")) /\ SameSchema(Data("b"), Data("c")))
    => LET a == View("a")
           b == View("b")
           c == View("c")
           m1 == PureMerge(PureMerge(a, b), c)
           m2 == PureMerge(a, PureMerge(b, c))
           m3 == PureMerge(b, PureMerge(a, c))
       IN  /\ Agree(m1, m2) /\ Agree(m2, m3)
           /\ m1.num_images = a.num_images + b.num_images + c.num_images

\* three Distributions of one schema with pairwise different statistics
C2_Witness ==
    /\ \A o \in Objs : Mergeable(o)
    /\ SameSchema(Data("a"), Data("b")) /\ SameSchema(Data("b"), Data("c"))
    /\ ~SameStats(Data("a"), Data("b")) /\ ~SameStats(Data("b"), Data("c"))
    /\ ~SameStats(Data("a"), Data("c"))
    /\ Keys(Data("a")) # Keys(Data("b"))

(***************************************************************************)
(* C3.  Merge is pure: a merge, succeeding or failing, leaves the layers,  *)
(* the mu and var vectors and the sample_count of its operands as they     *)
(* were; its result is a new Distribution that shares no dict with another *)
(* object; no later operation on one object changes another.               *)
(***************************************************************************)
C3_MergePure ==
    [][ /\ \A o \in Objs : hist'[o] = hist[o] => View(o)' = View(o)
        /\ \A o, p \in Objs : o # p => objs'[o].data # objs'[p].data
        /\ \A r \in Objs :
              (hist'[r] # hist[r] /\ hist'[r].op = "merge")
              => \A o \in Objs \ {r} : View(o)' = View(o)
        /\ \A r \in Objs :
              (hist[r].op = "merge" /\ hist'[r].op \in {"fit", "load"})
              => \A o \in Objs \ {r} : View(o)' = View(o) ]_vars

\* a merge of two different populated objects has returned a result
C3_Witness ==
    \E r \in Objs :
        /\ hist[r].op = "merge" /\ Data(r) # << >>
        /\ \A o \in Objs \ {r} : Populated(o) /\ Data(o) # << >>
        /\ \E o, p \in Objs \ {r} : ~SameStats(Data(o), Data(p))

C5_DegenerateMergeRejected ==
    /\ \A r \in Objs : hist[r].op = "merge" => hist[r].na + hist[r].nb - 1 # 0
    /\ \A a, b \in Objs :
          (SameSchema(Data(a), Data(b)) /\ objs[a].num_images + objs[b].num_images - 1 = 0)
          => PureMerge(View(a), View(b)).err = "DegenerateMergeError"

(***************************************************************************)
(* C6.  Singleton fit: a fit of a one-sample batch gives var = 0 and mu =  *)
(* the sample for every neuron and emits the warning; a fit of more than   *)
(* one sample emits no warning and gives the unbiased (n-1) variance.      *)
(***************************************************************************)
C6_SingletonFit ==
    \A o \in Objs :
        (hist[o].op = "fit" /\ hist[o].err = "none")
        => LET images == hist[o].images
               cfg == hist[o].cfg
           IN  \A i \in 1..Len(cfg) :
                  /\ HasKey(Data(o), cfg[i].k)
                  /\ LET st == Get(Data(o), cfg[i].k)
                     IN  /\ Len(st.mu) = cfg[i].v /\ Len(st.var) = cfg[i].v
                         /\ Len(images) = 1 =>
                               /\ cfg[i].k \in hist[o].warned
                               /\ \A j \in 1..cfg[i].v :
                                     /\ st.var[j] = RZero
                                     /\ st.mu[j] = Neuron(cfg[i].k, j, images[1])
                         /\ Len(images) > 1 =>
                               /\ cfg[i].k \notin hist[o].warned
                               /\ \A j \in 1..cfg[i].v :
                                     st.var[j] =
                                       SampleVariance(NeuronValues(cfg[i].k, j, images))

\* one object fitted on a single sample and one on several, with a variance
\* that is not zero
C6_Witness ==
    \E o, p \in Objs :
        /\ hist[o].op = "fit" /\ Len(hist[o].images) = 1 /\ hist[o].warned # {}
        /\ hist[p].op = "fit" /\ Len(hist[p].images) = 3 /\ hist[p].err = "none"
        /\ \E i \in 1..Len(Data(p)) : Data(p)[i].v.var[1][1] > 0

(***************************************************************************)
(* C7.  Empty batch is rejected: fit_distribution on a layer batch of zero *)
(* samples fails with the shape error, stores no statistics for the layer  *)
(* and does not take the singleton branch (no warning, no zero variance).  *)
(***************************************************************************)
C7_EmptyBatchRejected ==
    \A o \in Objs :
        (hist[o].op = "fit" /\ hist[o].images = << >> /\ hist[o].cfg # << >>)
        => /\ hist[o].err = "ShapeError"
           /\ Data(o) = << >>
           /\ hist[o].warned = {}

\* a fit of two layers on the empty batch has been attempted
C7_Witness ==
    \E o \in Objs :
        hist[o].op = "fit" /\ hist[o].images = << >> /\ Len(hist[o].cfg) = 2

(***************************************************************************)
(* C8.  Save/load round trip: loading the archive of a non-empty           *)
(* Distribution d with d's layer names gives exactly d's layers, each with *)
(* mu and var equal to d's rounded to float32, whatever the layer names.   *)
(***************************************************************************)
C8_SaveLoadRoundTrip ==
    \A o \in Objs :
        (hist[o].op = "load" /\ hist[o].src # << >>)
        => /\ hist[o].err = "none"
           /\ KeySet(Data(o)) = KeySet(hist[o].src)
           /\ \A layer \in KeySet(hist[o].src) :
                 /\ HasKey(Data(o), layer)
                 /\ Get(Data(o), layer) =
                       Stats(ToFloat32(Get(hist[o].src, layer).mu),
                             ToFloat32(Get(hist[o].src, layer).var))

C10_LayerStatsInvariant ==
    \A o \in Objs :
        \A i \in 1..Len(Data(o)) :
            LET st == Data(o)[i].v
            IN  /\ st.has = {"mu", "var"}
                /\ Len(st.mu) = Len(st.var)
                /\ \A j \in 1..Len(st.var) : RGeq0(st.var[j])
====
